---- MODULE Spec2Model ----
(***************************************************************************)
(* The sizing engine of src/src/services/electricalLogic.ts and the way    *)
(* src/src/App.tsx calls it.                                               *)
(*                                                                         *)
(* Numbers.  The engine computes with JavaScript numbers.                  *)
(*                                                                         *)
(* calculateElectrical is modelled in exact rational arithmetic: a         *)
(* quantity is a reduced fraction [n, d] of integers, and every table      *)
(* value keeps the decimals of the source (17.5 A is 35/2, 12.1 ohm/km is  *)
(* 121/10, 0.78 is 39/50).  The numeric inputs are positive, so no         *)
(* quantity is infinite; the one NaN is the ampacity read for a method     *)
(* name that Object.prototype defines, and it is the fraction 0/0.  The    *)
(* inputs are inputs on which the doubles of the code decide every         *)
(* comparison (Iz >= minIz, dVPercent > limit, breaker <= Iz, the Isc and  *)
(* Ib tests) as the exact values do; an input where rounding decides,      *)
(* such as 90 * 0.7 against 63, is outside them.  In a three-phase         *)
(* circuit the design current carries a factor 1/sqrt(3), kept             *)
(* symbolically (field root3); in the voltage drop it meets the factor     *)
(* sqrt(3) of line 135 and the two cancel.                                 *)
(*                                                                         *)
(* calculateQDC, calculateMotor and calculateSolar are modelled in         *)
(* binary64 itself: the sum of the circuit currents depends on the order   *)
(* in which they are added, and the divisions and products of the motor    *)
(* and solar calculators are rounded one by one.                           *)
(***************************************************************************)
EXTENDS Integers, Sequences, FiniteSets, TLC

VARIABLES
    input,      \* the CalcInput record of the call of calculateElectrical
    pc,         \* where that call is: "idle", "loop", "done" or "error"
    selectedCable, \* the local selectedCable, as an index of CABLE_TABLE
    Iz,         \* the local Iz: corrected ampacity of selectedCable
    vd,         \* the local vd: [dV, dVPercent] of selectedCable
    ampacity,   \* the index findCable(breaker) returned at line 125
    result,     \* the CalcResult returned, NoResult before the return
    prev,       \* the call before this one: [input, result] and the qdcResult
                \* of the time of its return, or NoCall
    circuits,   \* qdcInput.circuits, the array the caller of calculateQDC owns
    qdcBefore,  \* that array as it was when the last call of calculateQDC began
    qdcResult,  \* the QDCCalcResult of the last call, NoResult before it
    qdcPrev,    \* the QDCCalcResult of the call before the last
    motorInput, \* the MotorCalcInput record of the form (App.tsx 977-983)
    motorResult, \* the MotorCalcResult of the last call, NoResult before it
    solarInput, \* the SolarInput record of the form (App.tsx 1006-1010)
    solarResult \* the SolarResult of the last call, NoResult before it

elecVars == <<input, pc, selectedCable, Iz, vd, ampacity, result, prev>>
qdcVars == <<circuits, qdcBefore, qdcResult, qdcPrev>>
toolVars == <<motorInput, motorResult, solarInput, solarResult>>
vars == <<elecVars, qdcVars, toolVars>>

NoResult == [none |-> TRUE]
NoCall == [none |-> TRUE]

-----------------------------------------------------------------------------
(* Exact fractions.                                                        *)

RECURSIVE Gcd(_, _)
Gcd(a, b) == IF b = 0 THEN a ELSE Gcd(b, a % b)

Frac(n, d) ==
    LET g == Gcd(n, d) IN [n |-> n \div g, d |-> d \div g]

Whole(k) == [n |-> k, d |-> 1]

FracMul(a, b) ==
    LET g1 == Gcd(a.n, b.d)
        g2 == Gcd(b.n, a.d)
    IN  Frac((a.n \div g1) * (b.n \div g2), (a.d \div g2) * (b.d \div g1))

FracDiv(a, b) == FracMul(a, [n |-> b.d, d |-> b.n])

FracAdd(a, b) ==
    LET g == Gcd(a.d, b.d)
    IN  Frac(a.n * (b.d \div g) + b.n * (a.d \div g), (a.d \div g) * b.d)

\* a/b < c/d for a, c >= 0 and b, d > 0, by the integer parts and then the
\* remainders (no product is formed, so nothing overflows).
RECURSIVE RatioLess(_, _, _, _)
RatioLess(a, b, c, d) ==
    LET qa == a \div b
        qc == c \div d
        ra == a % b
        rc == c % d
    IN  IF qa # qc THEN qa < qc
        ELSE IF rc = 0 THEN FALSE
        ELSE IF ra = 0 THEN TRUE
        ELSE RatioLess(d, rc, b, ra)

\* NaN, the product of something that is not a number; every comparison
\* with it is false.
NaN == [n |-> 0, d |-> 0]
IsNaN(a) == a.d = 0

FracLess(a, b) == ~IsNaN(a) /\ ~IsNaN(b) /\ RatioLess(a.n, a.d, b.n, b.d)
FracLeq(a, b) == ~IsNaN(a) /\ ~IsNaN(b) /\ ~RatioLess(b.n, b.d, a.n, a.d)

-----------------------------------------------------------------------------
(* JavaScript numbers (IEEE 754 binary64), for the calculators whose       *)
(* results depend on how a sum or a product is rounded.  A natural number  *)
(* of any size is the sequence of its digits in base 2^14, lowest first;   *)
(* a double is [m, e], the exact value m * 2^e with m odd (or m zero), and *)
(* an operation is the exact result rounded to 53 significant bits, ties   *)
(* to even.  Exponents stay far inside the range of binary64 here, so      *)
(* overflow and subnormal numbers are not modelled.                        *)

LimbBits == 14
Base == 2^LimbBits
Precision == 53

RECURSIVE BigNorm(_)
BigNorm(a) ==
    IF a = << >> THEN a
    ELSE IF a[Len(a)] = 0 THEN BigNorm(SubSeq(a, 1, Len(a) - 1))
    ELSE a

RECURSIVE BigFromInt(_)
BigFromInt(n) == IF n = 0 THEN << >> ELSE <<n % Base>> \o BigFromInt(n \div Base)

Limb(a, i) == IF i <= Len(a) THEN a[i] ELSE 0

Zeros(n) == [i \in 1..n |-> 0]

RECURSIVE BigAddFrom(_, _, _, _)
BigAddFrom(a, b, i, carry) ==
    IF i > Len(a) /\ i > Len(b)
    THEN IF carry = 0 THEN << >> ELSE <<carry>>
    ELSE LET sum == Limb(a, i) + Limb(b, i) + carry
         IN  <<sum % Base>> \o BigAddFrom(a, b, i + 1, sum \div Base)

BigAdd(a, b) == BigNorm(BigAddFrom(a, b, 1, 0))

RECURSIVE BigMulLimbFrom(_, _, _, _)
BigMulLimbFrom(a, k, i, carry) ==
    IF i > Len(a)
    THEN IF carry = 0 THEN << >> ELSE <<carry>>
    ELSE LET p == a[i] * k + carry
         IN  <<p % Base>> \o BigMulLimbFrom(a, k, i + 1, p \div Base)

BigMulLimb(a, k) == BigNorm(BigMulLimbFrom(a, k, 1, 0))

RECURSIVE BigMulFrom(_, _, _)
BigMulFrom(a, b, i) ==
    IF i > Len(a) THEN << >>
    ELSE BigAdd(Zeros(i - 1) \o BigMulLimb(b, a[i]), BigMulFrom(a, b, i + 1))

BigMul(a, b) == BigNorm(BigMulFrom(a, b, 1))

\* a * 2^s
BigShl(a, s) == BigNorm(Zeros(s \div LimbBits) \o BigMulLimb(a, 2^(s % LimbBits)))

\* floor(a / 2^s)
BigShr(a, s) ==
    LET drop == s \div LimbBits
        bits == s % LimbBits
        t == IF drop >= Len(a) THEN << >> ELSE SubSeq(a, drop + 1, Len(a))
    IN  BigNorm([i \in 1..Len(t) |->
                    (t[i] \div 2^bits) + (Limb(t, i + 1) % 2^bits) * 2^(LimbBits - bits)])

\* Bit i of a, bit 0 the lowest.
BigTestBit(a, i) == (Limb(a, i \div LimbBits + 1) \div 2^(i % LimbBits)) % 2 = 1

\* The s lowest bits of a are all zero.
BigLowZero(a, s) == BigShl(BigShr(a, s), s) = a

RECURSIVE IntBitLen(_)
IntBitLen(n) == IF n = 0 THEN 0 ELSE 1 + IntBitLen(n \div 2)

BigBitLen(a) == IF a = << >> THEN 0 ELSE LimbBits * (Len(a) - 1) + IntBitLen(a[Len(a)])

RECURSIVE BigLessFrom(_, _, _)
BigLessFrom(a, b, i) ==
    IF i = 0 THEN FALSE
    ELSE IF a[i] # b[i] THEN a[i] < b[i]
    ELSE BigLessFrom(a, b, i - 1)

BigLess(a, b) ==
    IF Len(a) # Len(b) THEN Len(a) < Len(b) ELSE BigLessFrom(a, b, Len(a))

\* Quotient and remainder of a by a small divisor d (d <= 2^14).
RECURSIVE BigDivSmallFrom(_, _, _, _)
BigDivSmallFrom(a, d, i, r) ==
    IF i = 0 THEN [q |-> << >>, r |-> r]
    ELSE LET cur == r * Base + a[i]
             low == BigDivSmallFrom(a, d, i - 1, cur % d)
         IN  [q |-> Append(low.q, cur \div d), r |-> low.r]

BigDivSmall(a, d) ==
    LET qr == BigDivSmallFrom(a, d, Len(a), 0) IN [q |-> BigNorm(qr.q), r |-> qr.r]

\* m * 2^e with the factors of two moved from m into e.
RECURSIVE Canon(_, _)
Canon(m, e) ==
    IF m = << >> THEN [m |-> << >>, e |-> 0]
    ELSE IF m[1] = 0 THEN Canon(BigShr(m, LimbBits), e + LimbBits)
    ELSE IF m[1] % 2 = 0 THEN Canon(BigShr(m, 1), e + 1)
    ELSE [m |-> m, e |-> e]

\* The double nearest to m * 2^e, ties to even.
Round(m, e) ==
    LET excess == BigBitLen(m) - Precision IN
    IF excess <= 0 THEN Canon(m, e)
    ELSE LET q == BigShr(m, excess)
             guard == BigTestBit(m, excess - 1)
             sticky == ~BigLowZero(m, excess - 1)
             up == guard /\ (sticky \/ BigTestBit(q, 0))
         IN  Canon(IF up THEN BigAdd(q, <<1>>) ELSE q, e + excess)

\* The double a decimal literal n/d denotes (d <= 2^14): the quotient to
\* 70 binary places, and one more bit that tells whether a remainder is left.
ToDouble(n, d) ==
    LET qr == BigDivSmall(BigShl(BigFromInt(n), 70), d)
        tail == IF qr.r = 0 THEN << >> ELSE <<1>>
    IN  Round(BigAdd(BigShl(qr.q, 1), tail), 0 - 71)

DoubleOfInt(n) == Canon(BigFromInt(n), 0)

\* The mantissa of x at exponent e <= x.e.
Aligned(x, e) == BigShl(x.m, x.e - e)

MinExp(x, y) ==
    IF x.m = << >> THEN y.e ELSE IF y.m = << >> THEN x.e
    ELSE IF x.e < y.e THEN x.e ELSE y.e

\* x + y
DoubleAdd(x, y) ==
    LET e == MinExp(x, y) IN Round(BigAdd(Aligned(x, e), Aligned(y, e)), e)

\* x * y
DoubleMul(x, y) == Round(BigMul(x.m, y.m), x.e + y.e)

\* x < y
DoubleLess(x, y) ==
    LET e == MinExp(x, y) IN BigLess(Aligned(x, e), Aligned(y, e))

\* a - b, for a >= b.
RECURSIVE BigSubFrom(_, _, _, _)
BigSubFrom(a, b, i, borrow) ==
    IF i > Len(a) THEN << >>
    ELSE LET diff == a[i] - Limb(b, i) - borrow
         IN  IF diff < 0
             THEN <<diff + Base>> \o BigSubFrom(a, b, i + 1, 1)
             ELSE <<diff>> \o BigSubFrom(a, b, i + 1, 0)

BigSub(a, b) == BigNorm(BigSubFrom(a, b, 1, 0))

\* The binary places of a quotient that rounding needs: 53 and the guard
\* bit, and one to spare.
QuotientBits == 55

\* The long division works in digits of DigitBits binary places.
DigitBits == 5

\* The digit d of the quotient of r * 2^DigitBits by b, for r < b:
\* d * b <= r * 2^DigitBits < (d + 1) * b.
QuotientDigit(r, b) ==
    LET shifted == BigShl(r, DigitBits) IN
    CHOOSE d \in 0..(2^DigitBits - 1) :
        /\ ~BigLess(shifted, BigMulLimb(b, d))
        /\ BigLess(shifted, BigMulLimb(b, d + 1))

\* The long division of r by b, for 0 < r < b, after k binary places that
\* gave the quotient q: one digit for each step, until the quotient has
\* QuotientBits significant bits.
RECURSIVE BigDivDigits(_, _, _, _)
BigDivDigits(q, r, b, k) ==
    IF BigBitLen(q) >= QuotientBits THEN [q |-> q, r |-> r, places |-> k]
    ELSE LET d == QuotientDigit(r, b) IN
         BigDivDigits(BigAdd(BigShl(q, DigitBits), BigFromInt(d)),
                      BigSub(BigShl(r, DigitBits), BigMulLimb(b, d)),
                      b, k + DigitBits)

\* x / y, for y # 0: the mantissas are shifted until the divisor has one
\* bit more than the dividend, the quotient is taken to QuotientBits
\* significant bits, and one more bit tells whether a remainder is left.
DoubleDiv(x, y) ==
    IF x.m = << >> THEN x
    ELSE LET gap == BigBitLen(x.m) - BigBitLen(y.m) + 1
             num == IF gap < 0 THEN BigShl(x.m, 0 - gap) ELSE x.m
             den == IF gap > 0 THEN BigShl(y.m, gap) ELSE y.m
             qr == BigDivDigits(<< >>, num, den, 0)
             tail == IF qr.r = << >> THEN << >> ELSE <<1>>
         IN  Round(BigAdd(BigShl(qr.q, 1), tail),
                   x.e - y.e + gap - qr.places - 1)

\* The value of a as an integer of the model, for a below 2^28.
RECURSIVE BigToInt(_)
BigToInt(a) ==
    IF a = << >> THEN 0 ELSE a[1] + Base * BigToInt(SubSeq(a, 2, Len(a)))

\* Math.ceil(x), as an integer: a mantissa is odd, so a negative exponent
\* leaves a fraction behind.
Ceil(x) ==
    IF x.e >= 0 THEN BigToInt(Aligned(x, 0))
    ELSE BigToInt(BigShr(x.m, 0 - x.e)) + 1

\* Math.sqrt(3): the double nearest to the square root of three,
\* 3900231685776981 * 2^-51 = 1.7320508075688772.
Sqrt3 == Canon(<<9813, 4272, 13271, 886>>, 0 - 51)

\* The product of x and y as a real number, not rounded.
ExactMul(x, y) == Canon(BigMul(x.m, y.m), x.e + y.e)

-----------------------------------------------------------------------------
(* The reference tables.                                                   *)

Cable(s, b1, b2, c, r) ==
    [section |-> s, capacity |-> [B1 |-> b1, B2 |-> b2, C |-> c], resistance |-> r]

CABLE_TABLE ==
    << Cable(Frac(15, 10),  Frac(175, 10), Frac(165, 10), Frac(195, 10), Frac(12100, 1000)),
       Cable(Frac(25, 10),  Whole(24),  Whole(23),  Whole(27),  Frac(7410, 1000)),
       Cable(Whole(4),   Whole(32),  Whole(30),  Whole(36),  Frac(4610, 1000)),
       Cable(Whole(6),   Whole(41),  Whole(38),  Whole(46),  Frac(3080, 1000)),
       Cable(Whole(10),  Whole(57),  Whole(52),  Whole(63),  Frac(1830, 1000)),
       Cable(Whole(16),  Whole(76),  Whole(69),  Whole(85),  Frac(1150, 1000)),
       Cable(Whole(25),  Whole(101), Whole(90),  Whole(112), Frac(727, 1000)),
       Cable(Whole(35),  Whole(125), Whole(111), Whole(138), Frac(524, 1000)),
       Cable(Whole(50),  Whole(151), Whole(133), Whole(168), Frac(387, 1000)),
       Cable(Whole(70),  Whole(192), Whole(168), Whole(213), Frac(268, 1000)),
       Cable(Whole(95),  Whole(232), Whole(201), Whole(258), Frac(193, 1000)),
       Cable(Whole(120), Whole(269), Whole(232), Whole(299), Frac(153, 1000)) >>

TEMPERATURE_FACTORS ==
    (10 :> Frac(122, 100)) @@ (15 :> Frac(117, 100)) @@ (20 :> Frac(112, 100)) @@
    (25 :> Frac(106, 100)) @@ (30 :> Frac(100, 100)) @@ (35 :> Frac(94, 100)) @@
    (40 :> Frac(87, 100)) @@ (45 :> Frac(79, 100)) @@ (50 :> Frac(71, 100))

GROUPING_FACTORS ==
    (1 :> Frac(100, 100)) @@ (2 :> Frac(80, 100)) @@ (3 :> Frac(70, 100)) @@
    (4 :> Frac(65, 100)) @@ (5 :> Frac(60, 100)) @@ (6 :> Frac(57, 100)) @@
    (7 :> Frac(54, 100)) @@ (8 :> Frac(52, 100)) @@ (9 :> Frac(50, 100))

BREAKER_RATINGS == <<6, 10, 13, 16, 20, 25, 32, 40, 50, 63, 70, 80, 100, 125>>

-----------------------------------------------------------------------------
(* calculateElectrical, lines 89-234.                                      *)

\* 1. The design current Ib = q, or q / sqrt(3) in a three-phase circuit.
DesignCurrent(inp) ==
    [q |-> FracDiv(Whole(inp.power), FracMul(Whole(inp.voltage), inp.powerFactor)),
     root3 |-> inp.systemType = "trifasico"]

\* k < Ib, for a whole number k of amperes.
CurrentExceeds(Ib, k) ==
    IF Ib.root3
    THEN Ib.q.n > 0 /\ RatioLess(3 * k * k * Ib.q.d, Ib.q.n, Ib.q.n, Ib.q.d)
    ELSE FracLess(Whole(k), Ib.q)

\* A default factor of one half for a key the table does not have.
FactorOrHalf(table, key) == IF key \in DOMAIN table THEN table[key] ELSE Frac(1, 2)

\* 2. TABLE[key] || 1.0
FactorOr1(table, key) == IF key \in DOMAIN table THEN table[key] ELSE Whole(1)

fInsulation(inp) == IF inp.insulation = "EPR" THEN Frac(125, 100) ELSE Whole(1)

\* Aluminium raising the ampacity instead of derating it.
fMaterialRaised(inp) == IF inp.material = "aluminio" THEN Frac(128, 100) ELSE Whole(1)

fMaterial(inp) == IF inp.material = "aluminio" THEN Frac(78, 100) ELSE Whole(1)

fTotal(inp) ==
    FracMul(FracMul(FracMul(FactorOr1(TEMPERATURE_FACTORS, inp.temp),
                            FactorOr1(GROUPING_FACTORS, inp.grouping)),
                    fInsulation(inp)),
            fMaterial(inp))

\* Names every object literal inherits from Object.prototype: capacity[name]
\* is then a function or an object, which is truthy and not a number.
ObjectPrototype ==
    {"constructor", "toString", "valueOf", "hasOwnProperty", "__proto__"}

\* 3. getIz: (cable.capacity[method] || cable.capacity['B1']) * fTotal, with
\* the method and the fTotal of the call the closure belongs to.
getIz(cable, method, fT) ==
    IF method \in DOMAIN cable.capacity THEN FracMul(cable.capacity[method], fT)
    ELSE IF method \in ObjectPrototype THEN NaN
    ELSE FracMul(cable.capacity["B1"], fT)

\* The value of a function that ends without a return (undefined), and of
\* find() when no element passes.
Undefined == 0

\* findCable without line 122: the for loop ends and nothing is returned.
findCableNoFallback == Undefined

\* findCable falling back on the last section but one.
findCableFallbackShort == Len(CABLE_TABLE) - 1

\* What findCable returns when its for loop ends without a return.
findCableFallback == Len(CABLE_TABLE)

\* The for loop with Iz > minIz for its test.
RECURSIVE findCableFromStrict(_, _, _, _)
findCableFromStrict(i, minIz, method, fT) ==
    IF i > Len(CABLE_TABLE) THEN findCableFallback
    ELSE IF FracLess(Whole(minIz), getIz(CABLE_TABLE[i], method, fT)) THEN i
    ELSE findCableFromStrict(i + 1, minIz, method, fT)

\* The for loop of findCable from table index i on.
RECURSIVE findCableFrom(_, _, _, _)
findCableFrom(i, minIz, method, fT) ==
    IF i > Len(CABLE_TABLE) THEN findCableFallback
    ELSE IF FracLeq(Whole(minIz), getIz(CABLE_TABLE[i], method, fT)) THEN i
    ELSE findCableFrom(i + 1, minIz, method, fT)

\* findCable comparing the capacity of the table, not the corrected one.
findCableUncorrected(minIz, inp) == findCableFrom(1, minIz, inp.method, Whole(1))

findCable(minIz, inp) == findCableFrom(1, minIz, inp.method, fTotal(inp))

\* calculateVD dividing by the length where lines 135 and 137 multiply by it.
calculateVDInverse(cable, inp) ==
    LET Ib == DesignCurrent(inp)
        R == IF inp.material = "aluminio"
             THEN FracMul(cable.resistance, Frac(16, 10))
             ELSE cable.resistance
        lines == IF inp.systemType = "trifasico" THEN 1 ELSE 2
        dV == FracMul(FracMul(Frac(lines, 1000 * inp.length), Ib.q), R)
    IN  [dV |-> dV, dVPercent |-> FracMul(FracDiv(dV, Whole(inp.voltage)), Whole(100))]

\* 4. The voltage drop over a cable.  R in ohm/km, dV in volts.
calculateVD(cable, inp) ==
    LET Ib == DesignCurrent(inp)
        R == IF inp.material = "aluminio"
             THEN FracMul(cable.resistance, Frac(16, 10))
             ELSE cable.resistance
        lines == IF inp.systemType = "trifasico" THEN 1 ELSE 2
        dV == FracMul(FracMul(Frac(lines * inp.length, 1000), Ib.q), R)
    IN  [dV |-> dV, dVPercent |-> FracMul(FracDiv(dV, Whole(inp.voltage)), Whole(100))]

\* A limit of 3 percent for lighting circuits.
limitLighting3(inp) ==
    IF inp.loadType = "alimentador" THEN 7
    ELSE IF inp.loadType = "iluminacao" THEN 3
    ELSE 4

\* 5. The limit of the percent drop.
limit(inp) == IF inp.loadType = "alimentador" THEN 7 ELSE 4

\* The while loop stopping one section short of the end of the table.
LoopConditionShort(inp, drop, cableIdx) ==
    /\ FracLess(Whole(limit(inp)), drop.dVPercent)
    /\ cableIdx < Len(CABLE_TABLE) - 1

\* The condition of the while loop, line 149.
LoopCondition(inp, drop, cableIdx) ==
    /\ FracLess(Whole(limit(inp)), drop.dVPercent)
    /\ cableIdx < Len(CABLE_TABLE)

\* The estimate taken over the first section of the table, whatever the
\* section it is asked for.
estimateShortCircuitOfFirst(voltage, length, section) ==
    FracDiv(Whole(voltage), FracMul(CABLE_TABLE[1].resistance, Frac(length, 1000)))

\* estimateShortCircuit, lines 362-365.
estimateShortCircuit(voltage, length, section) ==
    LET found == {i \in 1..Len(CABLE_TABLE) : CABLE_TABLE[i].section = section}
        r == IF found = {} THEN Whole(1)
             ELSE CABLE_TABLE[CHOOSE i \in found : \A j \in found : i <= j].resistance
        cableResistance == FracMul(r, Frac(length, 1000))
    IN  FracDiv(Whole(voltage), cableResistance)

\* The neutral halved from 25 mm2 on (>= for the > of line 157).
neutralSectionFrom25(inp, section) ==
    IF inp.systemType = "trifasico" /\ FracLeq(Whole(25), section)
    THEN LET half == FracDiv(section, Whole(2))
         IN  IF FracLess(half, Whole(16)) THEN Whole(16) ELSE half
    ELSE section

\* 6. Neutral and earth sizing.
neutralSectionOf(inp, section) ==
    IF inp.systemType = "trifasico" /\ FracLess(Whole(25), section)
    THEN LET half == FracDiv(section, Whole(2))
         IN  IF FracLess(half, Whole(16)) THEN Whole(16) ELSE half
    ELSE section

\* The earth fixed at 16 mm2 below 35 mm2 only (< for the <= of line 163).
earthSectionBelow35(section) ==
    IF FracLess(Whole(16), section) /\ FracLess(section, Whole(35)) THEN Whole(16)
    ELSE IF FracLess(Whole(35), section) THEN FracDiv(section, Whole(2))
    ELSE section

\* The earth above 35 mm2 a quarter of the phase section.
earthSectionQuarter(section) ==
    IF FracLess(Whole(16), section) /\ FracLeq(section, Whole(35)) THEN Whole(16)
    ELSE IF FracLess(Whole(35), section) THEN FracDiv(section, Whole(4))
    ELSE section

earthSectionOf(section) ==
    IF FracLess(Whole(16), section) /\ FracLeq(section, Whole(35)) THEN Whole(16)
    ELSE IF FracLess(Whole(35), section) THEN FracDiv(section, Whole(2))
    ELSE section

\* 7. Conduit sizing.
phaseConductors(inp) == IF inp.systemType = "trifasico" THEN 3 ELSE 2

totalAreaOf(inp, section) ==
    FracAdd(FracAdd(FracMul(section, Whole(phaseConductors(inp))),
                    neutralSectionOf(inp, section)),
            earthSectionOf(section))

conduitSizeOf(totalArea) ==
    IF FracLess(Whole(800), totalArea) THEN "2\""
    ELSE IF FracLess(Whole(500), totalArea) THEN "1 1/2\""
    ELSE IF FracLess(Whole(300), totalArea) THEN "1 1/4\""
    ELSE IF FracLess(Whole(150), totalArea) THEN "1\""
    ELSE "3/4\""

\* The interrupting capacity compared in kA with a current in A.
isIcnConformInKA(inp, Isc) == FracLeq(Isc, inp.breakerIcn)

\* 8. Interrupting capacity: breakerIcn * 1000 >= Isc.
isIcnConformOf(inp, Isc) == FracLeq(Isc, FracMul(inp.breakerIcn, Whole(1000)))

\* Line 181 without its last conjunct.
isConformWithoutIcn(inp, drop, iz, icnOk) ==
    /\ FracLeq(drop.dVPercent, Whole(limit(inp)))
    /\ FracLeq(Whole(inp.breakerRating), iz)

\* Line 181.
isConformOf(inp, drop, iz, icnOk) ==
    /\ FracLeq(drop.dVPercent, Whole(limit(inp)))
    /\ FracLeq(Whole(inp.breakerRating), iz)
    /\ icnOk

\* The notes array kept outside the function: the notes of the call before
\* are still in it.
NewNotesShared == IF prev = NoCall THEN << >> ELSE prev.result.notes

\* const notes = [], line 182.
NewNotes == << >>

\* One note: the template pushed and the values it interpolates (the digits
\* that toFixed prints are not modelled).
Note(kind, args) == [kind |-> kind, args |-> args]

\* unshift instead of push: the note goes to the front.
PushIfFront(notes, cond, note) == IF cond THEN <<note>> \o notes ELSE notes

PushIf(notes, cond, note) == IF cond THEN Append(notes, note) ELSE notes

\* The trip-curve check without its branch for socket outlets.
CurveNotesNoTomadas(inp) ==
    IF inp.loadType = "motor" /\ inp.breakerCurve = "B"
        THEN << Note("Recomendacao: motores", << >>) >>
    ELSE IF inp.loadType = "iluminacao" /\ inp.breakerCurve = "D"
        THEN << Note("Recomendacao: iluminacao", << >>) >>
    ELSE << >>

\* 9. The trip-curve check, lines 197-203.
CurveNotes(inp) ==
    IF inp.loadType = "motor" /\ inp.breakerCurve = "B"
        THEN << Note("Recomendacao: motores", << >>) >>
    ELSE IF inp.loadType = "iluminacao" /\ inp.breakerCurve = "D"
        THEN << Note("Recomendacao: iluminacao", << >>) >>
    ELSE IF inp.loadType = "tomadas" /\ inp.breakerCurve = "B"
        THEN << Note("Observacao Tecnica: tomadas", << >>) >>
    ELSE << >>

\* Lines 182-205.
NotesOf(inp, drop, iz, Isc, icnOk) ==
    LET Ib == DesignCurrent(inp)
        n1 == PushIf(NewNotes, FracLess(Whole(limit(inp)), drop.dVPercent),
                     Note("Aviso: queda de tensao", <<drop.dVPercent, limit(inp)>>))
        n2 == PushIf(n1, FracLess(iz, Whole(inp.breakerRating)),
                     Note("Erro: sobrecarga", <<inp.breakerRating, iz>>))
        n3 == PushIf(n2, CurrentExceeds(Ib, inp.breakerRating),
                     Note("Erro: desarme", <<inp.breakerRating, Ib>>))
        n4 == PushIf(n3, ~icnOk, Note("Perigo: curto-circuito", <<Isc, inp.breakerIcn>>))
        n5 == n4 \o CurveNotes(inp)
    IN  PushIf(n5, CurrentExceeds(Ib, 100), Note("Corrente elevada", << >>))

ToUpperCase(material) == IF material = "cobre" THEN "COBRE" ELSE "ALUMINIO"

\* 10. The bill of materials, lines 208-214.
BomLine(item, quantity, estimatedPrice) ==
    [item |-> item, quantity |-> quantity, estimatedPrice |-> estimatedPrice]

bomOf(inp, section, neutral, earth, conduit) ==
    LET len == Whole(inp.length) IN
    << BomLine(<<"Cabo Flexivel", section, ToUpperCase(inp.material), inp.insulation>>,
               <<inp.length * phaseConductors(inp), "m">>,
               FracMul(FracMul(len, section), Frac(5, 10))),
       BomLine(<<"Cabo Flexivel (Neutro) Azul", neutral>>, <<inp.length, "m">>,
               FracMul(FracMul(len, neutral), Frac(45, 100))),
       BomLine(<<"Cabo Flexivel (Terra) Verde", earth>>, <<inp.length, "m">>,
               FracMul(FracMul(len, earth), Frac(45, 100))),
       BomLine(<<"Disjuntor DIN", inp.breakerRating, inp.breakerCurve, inp.breakerIcn>>,
               <<1, "un">>, Whole(25)),
       BomLine(<<"Eletroduto Corrugado Reforcado", conduit>>, <<inp.length, "m">>,
               FracMul(len, Whole(5))) >>

\* handleSaveCalculation, App.tsx 1040 (and the total on the screen, 1320):
\* result.bom.reduce((acc, item) => acc + item.estimatedPrice, 0).
RECURSIVE totalAmountFrom(_, _)
totalAmountFrom(bom, k) ==
    IF k = 0 THEN Whole(0)
    ELSE FracAdd(totalAmountFrom(bom, k - 1), bom[k].estimatedPrice)

\* The reduce stopping before the last line item.
totalAmountAllButLast(bom) == totalAmountFrom(bom, Len(bom) - 1)

totalAmountOf(bom) == totalAmountFrom(bom, Len(bom))

\* Lines 155-233: everything after the loop, from the locals the loop left.
CalcResultOf(inp, cableIdx, drop, iz) ==
    LET section == CABLE_TABLE[cableIdx].section
        neutral == neutralSectionOf(inp, section)
        earth == earthSectionOf(section)
        conduit == conduitSizeOf(totalAreaOf(inp, section))
        Isc == estimateShortCircuit(inp.voltage, inp.length, section)
        icnOk == isIcnConformOf(inp, Isc)
    IN  [current |-> DesignCurrent(inp),
         cableSection |-> section,
         neutralSection |-> neutral,
         earthSection |-> earth,
         conduitSize |-> conduit,
         breakerRating |-> inp.breakerRating,
         breakerCurve |-> inp.breakerCurve,
         breakerIcn |-> inp.breakerIcn,
         voltageDrop |-> drop.dV,
         voltageDropPercent |-> drop.dVPercent,
         shortCircuitCurrent |-> Isc,
         isConform |-> isConformOf(inp, drop, iz, icnOk),
         isIcnConform |-> icnOk,
         izCorrected |-> iz,
         notes |-> NotesOf(inp, drop, iz, Isc, icnOk),
         bom |-> bomOf(inp, section, neutral, earth, conduit)]

-----------------------------------------------------------------------------
(* calculateQDC, lines 337-360.                                            *)

\* input.circuits.reduce((acc, c) => acc + c.current, 0)
RECURSIVE SumCurrents(_, _)
SumCurrents(cs, k) ==
    IF k = 0 THEN DoubleOfInt(0)
    ELSE DoubleAdd(SumCurrents(cs, k - 1), cs[k].current)

totalCurrentOf(cs) == SumCurrents(cs, Len(cs))

\* BREAKER_RATINGS.find(r => r >= x), 0 (falsy, as undefined is) when none is.
RECURSIVE FindRatingFrom(_, _)
FindRatingFrom(i, x) ==
    IF i > Len(BREAKER_RATINGS) THEN Undefined
    ELSE IF ~DoubleLess(DoubleOfInt(BREAKER_RATINGS[i]), x) THEN BREAKER_RATINGS[i]
    ELSE FindRatingFrom(i + 1, x)

OrElse(found, default) == IF found = Undefined THEN default ELSE found

mainBreakerOf(total) ==
    OrElse(FindRatingFrom(1, DoubleMul(total, ToDouble(8, 10))), 125)

\* The sort with (a, b) => a.current - b.current: ascending.
RECURSIVE InsertAsc(_, _)
InsertAsc(c, s) ==
    IF s = << >> THEN <<c>>
    ELSE IF DoubleLess(c.current, Head(s).current) THEN <<c>> \o s
    ELSE <<Head(s)>> \o InsertAsc(c, Tail(s))

\* Array.prototype.sort with (a, b) => b.current - a.current: a stable sort
\* by descending current (the difference of two doubles has the sign of
\* their order).  InsertDesc puts c behind every element that is not less.
RECURSIVE InsertDesc(_, _)
InsertDesc(c, s) ==
    IF s = << >> THEN <<c>>
    ELSE IF DoubleLess(Head(s).current, c.current) THEN <<c>> \o s
    ELSE <<Head(s)>> \o InsertDesc(c, Tail(s))

RECURSIVE SortedPrefix(_, _)
SortedPrefix(cs, k) ==
    IF k = 0 THEN << >> ELSE InsertDesc(cs[k], SortedPrefix(cs, k - 1))

SortDesc(cs) == SortedPrefix(cs, Len(cs))

\* The array the forEach of line 348 runs over, and the array input.circuits
\* is afterwards: sort() sorts the array in place and returns it.
SortedInPlace(cs) == SortDesc(cs)

\* The forEach dealing over two phases only.
RECURSIVE PhaseSumOfTwo(_, _, _)
PhaseSumOfTwo(cs, phase, k) ==
    IF k = 0 THEN DoubleOfInt(0)
    ELSE IF (k - 1) % 2 = phase
         THEN DoubleAdd(PhaseSumOfTwo(cs, phase, k - 1), cs[k].current)
         ELSE PhaseSumOfTwo(cs, phase, k - 1)

\* forEach((c, i) => phases[i % 3].current += c.current), i from 0.
RECURSIVE PhaseSum(_, _, _)
PhaseSum(cs, phase, k) ==
    IF k = 0 THEN DoubleOfInt(0)
    ELSE IF (k - 1) % 3 = phase
         THEN DoubleAdd(PhaseSum(cs, phase, k - 1), cs[k].current)
         ELSE PhaseSum(cs, phase, k - 1)

phaseBalanceOf(sorted) ==
    << [phase |-> "R", current |-> PhaseSum(sorted, 0, Len(sorted))],
       [phase |-> "S", current |-> PhaseSum(sorted, 1, Len(sorted))],
       [phase |-> "T", current |-> PhaseSum(sorted, 2, Len(sorted))] >>

QDCResultOf(cs) ==
    LET totalCurrent == totalCurrentOf(cs)
        mainBreaker == mainBreakerOf(totalCurrent)
    IN  [totalCurrent |-> totalCurrent,
         mainBreaker |-> mainBreaker,
         drRating |-> mainBreaker,
         dpsRating |-> "20kA / 275V",
         busbarCurrent |-> DoubleMul(DoubleOfInt(mainBreaker), ToDouble(125, 100)),
         phaseBalance |-> phaseBalanceOf(SortDesc(cs))]

-----------------------------------------------------------------------------
(* calculateMotor, lines 252-268.                                          *)

\* The starting current as a multiple of the nominal current, lines 256-258.
StartingFactor(startingMethod) ==
    IF startingMethod = "soft-starter" THEN DoubleOfInt(3)
    ELSE IF startingMethod = "estrela-triangulo" THEN ToDouble(23, 10)
    ELSE DoubleOfInt(7)

\* powerW / (Math.sqrt(3) * voltage * (efficiency / 100) * powerFactor)
nominalCurrentOf(i) ==
    LET powerW == DoubleMul(i.powerCV, ToDouble(7355, 10))
        percent == DoubleDiv(i.efficiency, DoubleOfInt(100))
    IN  DoubleDiv(powerW,
                  DoubleMul(DoubleMul(DoubleMul(Sqrt3, i.voltage), percent),
                            i.powerFactor))

\* BREAKER_RATINGS.find(r => r >= In * 1.25) || 125
motorBreakerOf(In) ==
    OrElse(FindRatingFrom(1, DoubleMul(In, ToDouble(125, 100))), 125)

\* The bands applied to the relay setting In * 1.1 in place of In.
contactorOfRelay(In) ==
    LET relay == DoubleMul(In, ToDouble(11, 10)) IN
    IF DoubleLess(relay, DoubleOfInt(9)) THEN "CWM9"
    ELSE IF DoubleLess(relay, DoubleOfInt(12)) THEN "CWM12"
    ELSE IF DoubleLess(relay, DoubleOfInt(18)) THEN "CWM18"
    ELSE "CWM25"

\* In < 9 ? 'CWM9' : In < 12 ? 'CWM12' : In < 18 ? 'CWM18' : 'CWM25'
contactorOf(In) ==
    IF DoubleLess(In, DoubleOfInt(9)) THEN "CWM9"
    ELSE IF DoubleLess(In, DoubleOfInt(12)) THEN "CWM12"
    ELSE IF DoubleLess(In, DoubleOfInt(18)) THEN "CWM18"
    ELSE "CWM25"

calculateMotor(i) ==
    LET In == nominalCurrentOf(i) IN
    [nominalCurrent |-> In,
     startingCurrent |-> DoubleMul(In, StartingFactor(i.startingMethod)),
     breaker |-> motorBreakerOf(In),
     relay |-> DoubleMul(In, ToDouble(11, 10)),
     contactor |-> contactorOf(In)]

-----------------------------------------------------------------------------
(* calculateSolar, lines 323-335.                                          *)

\* (dailyConsumption / solarIrradiation) / 0.8
systemPowerOf(i) ==
    LET dailyConsumption == DoubleDiv(i.monthlyConsumption, DoubleOfInt(30))
    IN  DoubleDiv(DoubleDiv(dailyConsumption, i.solarIrradiation), ToDouble(8, 10))

\* Math.floor of the same quotient.
panelsOfFloor(systemPowerKW, panelPower) ==
    LET x == DoubleDiv(DoubleMul(systemPowerKW, DoubleOfInt(1000)), panelPower)
    IN  IF x.e >= 0 THEN BigToInt(Aligned(x, 0)) ELSE BigToInt(BigShr(x.m, 0 - x.e))

\* Math.ceil((systemPowerKW * 1000) / panelPower)
panelsOf(systemPowerKW, panelPower) ==
    Ceil(DoubleDiv(DoubleMul(systemPowerKW, DoubleOfInt(1000)), panelPower))

\* systemPowerKW * solarIrradiation * 30 * 0.8
monthlyGenerationOf(systemPowerKW, solarIrradiation) ==
    DoubleMul(DoubleMul(DoubleMul(systemPowerKW, solarIrradiation), DoubleOfInt(30)),
              ToDouble(8, 10))

calculateSolar(i) ==
    LET systemPowerKW == systemPowerOf(i)
        panels == panelsOf(systemPowerKW, i.panelPower)
    IN  [estimatedPanels |-> panels,
         systemPower |-> systemPowerKW,
         monthlyGeneration |-> monthlyGenerationOf(systemPowerKW, i.solarIrradiation),
         estimatedArea |-> panels * 2]

-----------------------------------------------------------------------------
(* The calls.                                                              *)

MaxLengthSteps == 3

Lengths == {30 * k : k \in 1..MaxLengthSteps}

\* The records calculateElectrical is called with.  'A1' is the method the
\* form of App.tsx offers that CABLE_TABLE has no column for; 33 degrees and
\* 12 grouped circuits are keys the factor tables do not have.
Inputs ==
    [systemType : {"monofasico", "bifasico", "trifasico"},
     voltage : {127, 380},
     power : {1200, 6000, 30000},
     powerFactor : {Frac(100, 100)},
     loadType : {"iluminacao", "alimentador"},
     length : Lengths,
     method : {"A1", "B2", "C"},
     temp : {33, 45},
     grouping : {12, 2},
     material : {"cobre", "aluminio"},
     insulation : {"PVC", "EPR"},
     breakerCurve : {"C"},
     breakerIcn : {Frac(30, 10), Frac(100, 10)},
     breakerRating : {16, 63, 125}]

\* The inputs of the runs that call calculateElectrical twice.
PairInputs ==
    [systemType : {"monofasico", "trifasico"},
     voltage : {127},
     power : {1200, 30000},
     powerFactor : {Frac(100, 100)},
     loadType : {"iluminacao", "alimentador"},
     length : Lengths,
     method : {"A1", "C"},
     temp : {33, 45},
     grouping : {1},
     material : {"cobre", "aluminio"},
     insulation : {"PVC"},
     breakerCurve : {"C"},
     breakerIcn : {Frac(30, 10)},
     breakerRating : {16, 125}]

\* The inputs of the runs that look at the notes: every load type and every
\* trip curve the form of App.tsx offers (lines 1159 and 1165).
NoteInputs ==
    [systemType : {"monofasico", "trifasico"},
     voltage : {127},
     power : {1200, 30000},
     powerFactor : {Frac(100, 100)},
     loadType : {"iluminacao", "motor", "tomadas", "alimentador"},
     length : Lengths,
     method : {"B1", "B2"},
     temp : {30, 45},
     grouping : {1, 2},
     material : {"cobre", "aluminio"},
     insulation : {"PVC"},
     breakerCurve : {"B", "C", "D"},
     breakerIcn : {Frac(30, 10), Frac(100, 10)},
     breakerRating : {16, 125}]

\* The inputs of the runs on keys the tables do not have: 33 degrees, 12
\* grouped circuits, and the method strings 'A1' and 'constructor' (method
\* is any string, line 60).
KeyInputs ==
    [systemType : {"monofasico", "trifasico"},
     voltage : {127},
     power : {1200, 30000},
     powerFactor : {Frac(100, 100)},
     loadType : {"iluminacao", "alimentador"},
     length : Lengths,
     method : {"A1", "constructor", "C"},
     temp : {33, 45},
     grouping : {12, 2},
     material : {"cobre", "aluminio"},
     insulation : {"PVC"},
     breakerCurve : {"C"},
     breakerIcn : {Frac(30, 10)},
     breakerRating : {16, 125}]

\* The input the form of App.tsx starts with (lines 958-973).
DefaultInput ==
    [systemType |-> "monofasico", voltage |-> 127, power |-> 1200,
     powerFactor |-> Frac(100, 100), loadType |-> "iluminacao", length |-> 20,
     method |-> "B1", temp |-> 30, grouping |-> 1, material |-> "cobre",
     insulation |-> "PVC", breakerCurve |-> "C", breakerIcn |-> Frac(30, 10),
     breakerRating |-> 16]

Circuit(id, tenths, type) == [id |-> id, current |-> ToDouble(tenths, 10), type |-> type]

\* The circuits the form of App.tsx starts with (lines 987-993).
DefaultCircuits ==
    << Circuit(1, 200, "TUG"), Circuit(2, 150, "Iluminacao"), Circuit(3, 320, "Chuveiro") >>

MaxCircuits == 3

\* Circuit currents, in tenths of an ampere.
Currents == {150, 152, 200, 205, 320, 321, 700}

CircuitLists ==
    UNION {[1..n -> {ToDouble(t, 10) : t \in Currents}] : n \in 1..MaxCircuits}

\* The lists of the runs on the phase balance: long enough for the
\* round-robin to come back to phase R.
MaxPhaseCircuits == 4

PhaseCurrents == {150, 152, 200, 205, 321}

PhaseLists ==
    UNION {[1..n -> {ToDouble(t, 10) : t \in PhaseCurrents}] : n \in 1..MaxPhaseCircuits}

NoDrop == [dV |-> Whole(0), dVPercent |-> Whole(0)]

\* A MotorCalcInput record: the power in tenths of a CV and the power
\* factor in hundredths, as the number fields of the form give them.
MotorInput(cvTenths, volts, percent, pfHundredths, startingMethod) ==
    [powerCV |-> ToDouble(cvTenths, 10),
     voltage |-> DoubleOfInt(volts),
     efficiency |-> DoubleOfInt(percent),
     powerFactor |-> ToDouble(pfHundredths, 100),
     startingMethod |-> startingMethod]

\* The motor the form of App.tsx starts with (lines 977-983).
DefaultMotorInput == MotorInput(50, 380, 85, 80, "direta")

\* The motors of the runs: commercial powers from 1 CV to 100 CV, and the
\* three starting methods the form offers (App.tsx 1177).
MotorInputs ==
    {MotorInput(cv, v, n, pf, st) :
        cv \in {10, 20, 30, 50, 75, 100, 150, 200, 250, 300, 500, 1000},
        v \in {220, 380, 440},
        n \in {80, 85, 90},
        pf \in {80, 85, 90},
        st \in {"direta", "estrela-triangulo", "soft-starter"}}

\* A SolarInput record: the irradiation in tenths, the step of its field.
SolarInput(kWh, irradiationTenths, watts) ==
    [monthlyConsumption |-> DoubleOfInt(kWh),
     solarIrradiation |-> ToDouble(irradiationTenths, 10),
     panelPower |-> DoubleOfInt(watts)]

\* The installation the form of App.tsx starts with (lines 1006-1010).
DefaultSolarInput == SolarInput(500, 50, 550)

SolarInputs ==
    {SolarInput(kWh, irr, w) :
        kWh \in {100, 150, 200, 250, 300, 350, 400, 450, 500, 550, 600, 660,
                 700, 800, 900, 1000, 1320, 1500, 2000},
        irr \in {35, 40, 45, 50, 55, 60},
        w \in {250, 330, 400, 450, 500, 550, 600}}

InitElec(inputs) ==
    /\ input \in inputs
    /\ pc = "idle"
    /\ selectedCable = Undefined
    /\ Iz = Whole(0)
    /\ vd = NoDrop
    /\ ampacity = Undefined
    /\ result = NoResult
    /\ prev = NoCall

InitQDCWith(lists) ==
    /\ circuits \in lists
    /\ qdcBefore = circuits
    /\ qdcResult = NoResult
    /\ qdcPrev = NoResult

InitToolsWith(motors, solars) ==
    /\ motorInput \in motors
    /\ motorResult = NoResult
    /\ solarInput \in solars
    /\ solarResult = NoResult

\* Lines 90-146: the design current, the factors, findCable(breaker) and the
\* drop over the cable it found.  Reading a property of undefined throws.
Begin ==
    /\ pc = "idle"
    /\ LET found == findCable(input.breakerRating, input) IN
        IF found \in 1..Len(CABLE_TABLE)
        THEN /\ selectedCable' = found
             /\ ampacity' = found
             /\ Iz' = getIz(CABLE_TABLE[found], input.method, fTotal(input))
             /\ vd' = calculateVD(CABLE_TABLE[found], input)
             /\ pc' = "loop"
        ELSE /\ pc' = "error"
             /\ UNCHANGED <<selectedCable, ampacity, Iz, vd>>
    /\ UNCHANGED <<input, result, prev, qdcVars, toolVars>>

\* Lines 149-153: one pass of the while loop.
LoopStep ==
    /\ pc = "loop"
    /\ LoopCondition(input, vd, selectedCable)
    /\ selectedCable' = selectedCable + 1
    /\ vd' = calculateVD(CABLE_TABLE[selectedCable + 1], input)
    /\ Iz' = getIz(CABLE_TABLE[selectedCable + 1], input.method, fTotal(input))
    /\ UNCHANGED <<input, pc, ampacity, result, prev, qdcVars, toolVars>>

\* Lines 155-233: the loop is left and the result is built and returned.
Finish ==
    /\ pc = "loop"
    /\ ~LoopCondition(input, vd, selectedCable)
    /\ result' = CalcResultOf(input, selectedCable, vd, Iz)
    /\ pc' = "done"
    /\ UNCHANGED <<input, selectedCable, Iz, vd, ampacity, prev, qdcVars, toolVars>>

\* handleCalculate once more on the same input record (App.tsx 1096-1097).
CallAgain ==
    /\ pc = "done"
    /\ prev = NoCall
    /\ prev' = [input |-> input, result |-> result, qdc |-> qdcResult]
    /\ result' = NoResult
    /\ pc' = "idle"
    /\ UNCHANGED <<input, selectedCable, Iz, vd, ampacity, qdcVars, toolVars>>

\* setInput({...input, length}) with a greater length (App.tsx 1160), then
\* handleCalculate.
CallLonger ==
    /\ pc = "done"
    /\ prev = NoCall
    /\ \E longer \in Lengths :
        /\ longer > input.length
        /\ input' = [input EXCEPT !.length = longer]
    /\ prev' = [input |-> input, result |-> result, qdc |-> qdcResult]
    /\ result' = NoResult
    /\ pc' = "idle"
    /\ UNCHANGED <<selectedCable, Iz, vd, ampacity, qdcVars, toolVars>>

\* The next call of a run on keys the tables do not have.
CallWith(changed) ==
    /\ pc = "done"
    /\ prev = NoCall
    /\ input' = changed
    /\ prev' = [input |-> input, result |-> result, qdc |-> qdcResult]
    /\ result' = NoResult
    /\ pc' = "idle"
    /\ UNCHANGED <<selectedCable, Iz, vd, ampacity, qdcVars, toolVars>>

\* A call with a temperature TEMPERATURE_FACTORS has no key for, then the
\* call with 30 degrees in its place (App.tsx 1162).
CallDefaultTemp ==
    /\ input.temp \notin DOMAIN TEMPERATURE_FACTORS
    /\ CallWith([input EXCEPT !.temp = 30])

\* A call with a grouping GROUPING_FACTORS has no key for, then the call
\* with a grouping of 1 in its place.
CallDefaultGrouping ==
    /\ input.grouping \notin DOMAIN GROUPING_FACTORS
    /\ CallWith([input EXCEPT !.grouping = 1])

\* A call with a method that is not a column of the table, then the call
\* with 'B1' in its place (App.tsx 1161).
CallDefaultMethod ==
    /\ input.method \notin {"B1", "B2", "C"}
    /\ CallWith([input EXCEPT !.method = "B1"])

\* A call for copper, then the call for aluminium on the same input
\* otherwise (App.tsx 1163).
CallAluminio ==
    /\ input.material = "cobre"
    /\ CallWith([input EXCEPT !.material = "aluminio"])

\* calculateQDC(qdcInput), before a call of calculateElectrical, between two
\* calls or on its own (App.tsx 1099).  The sort of line 348 is part of the
\* call.
CalculateQDC ==
    /\ pc = "idle" \/ (pc = "done" /\ prev = NoCall)
    /\ qdcBefore' = circuits
    /\ circuits' = SortedInPlace(circuits)
    /\ qdcPrev' = qdcResult
    /\ qdcResult' = QDCResultOf(circuits)
    /\ UNCHANGED <<elecVars, toolVars>>

\* handleCalculate on the motor tab: calculateMotor(motorInput) (App.tsx 1098).
CalculateMotor ==
    /\ motorResult' = calculateMotor(motorInput)
    /\ UNCHANGED <<elecVars, qdcVars, motorInput, solarInput, solarResult>>

\* handleCalculate on the solar tab: calculateSolar(solarInput) (App.tsx 1101).
CalculateSolar ==
    /\ solarResult' = calculateSolar(solarInput)
    /\ UNCHANGED <<elecVars, qdcVars, motorInput, motorResult, solarInput>>

\* One call of calculateElectrical on each input.
Init ==
    /\ InitElec(Inputs)
    /\ InitToolsWith({DefaultMotorInput}, {DefaultSolarInput})
    /\ InitQDCWith({DefaultCircuits})
Next == Begin \/ LoopStep \/ Finish
Spec == Init /\ [][Next]_vars

\* Two calls of calculateElectrical, and calls of calculateQDC in between.
InitPair ==
    /\ InitElec(PairInputs)
    /\ InitToolsWith({DefaultMotorInput}, {DefaultSolarInput})
    /\ InitQDCWith({DefaultCircuits})
NextPair == Begin \/ LoopStep \/ Finish \/ CallAgain \/ CallLonger \/ CalculateQDC
SpecPair == InitPair /\ [][NextPair]_vars

\* One call of calculateElectrical on each input of the notes runs, and on
\* the input the form starts with.
InitNotes ==
    /\ InitElec(NoteInputs \cup {DefaultInput})
    /\ InitToolsWith({DefaultMotorInput}, {DefaultSolarInput})
    /\ InitQDCWith({DefaultCircuits})
NextNotes == Begin \/ LoopStep \/ Finish
SpecNotes == InitNotes /\ [][NextNotes]_vars

\* A call of calculateElectrical on a key a table does not have, and the
\* call with the default key in its place.
InitKeys ==
    /\ InitElec(KeyInputs)
    /\ InitToolsWith({DefaultMotorInput}, {DefaultSolarInput})
    /\ InitQDCWith({DefaultCircuits})
NextKeys ==
    \/ Begin
    \/ LoopStep
    \/ Finish
    \/ CallDefaultTemp
    \/ CallDefaultGrouping
    \/ CallDefaultMethod
SpecKeys == InitKeys /\ [][NextKeys]_vars

\* A call of calculateElectrical for copper and the call for aluminium.
InitMaterial ==
    /\ InitElec({i \in KeyInputs : i.material = "cobre"})
    /\ InitToolsWith({DefaultMotorInput}, {DefaultSolarInput})
    /\ InitQDCWith({DefaultCircuits})
NextMaterial == Begin \/ LoopStep \/ Finish \/ CallAluminio
SpecMaterial == InitMaterial /\ [][NextMaterial]_vars

\* Calls of calculateQDC on one array of circuits.
InitQDC ==
    /\ InitElec({DefaultInput})
    /\ InitToolsWith({DefaultMotorInput}, {DefaultSolarInput})
    /\ InitQDCWith({[i \in DOMAIN l |-> [id |-> i, current |-> l[i], type |-> "TUG"]] :
                        l \in CircuitLists})
NextQDC == CalculateQDC
SpecQDC == InitQDC /\ [][NextQDC]_vars

\* Calls of calculateQDC on one array of up to MaxPhaseCircuits circuits.
InitPhases ==
    /\ InitElec({DefaultInput})
    /\ InitToolsWith({DefaultMotorInput}, {DefaultSolarInput})
    /\ InitQDCWith({[i \in DOMAIN l |-> [id |-> i, current |-> l[i], type |-> "TUG"]] :
                        l \in PhaseLists})
NextPhases == CalculateQDC
SpecPhases == InitPhases /\ [][NextPhases]_vars

\* calculateMotor on each motor.
InitMotor ==
    /\ InitElec({DefaultInput})
    /\ InitQDCWith({DefaultCircuits})
    /\ InitToolsWith(MotorInputs, {DefaultSolarInput})
NextMotor == CalculateMotor
SpecMotor == InitMotor /\ [][NextMotor]_vars

\* calculateSolar on each installation.
InitSolar ==
    /\ InitElec({DefaultInput})
    /\ InitQDCWith({DefaultCircuits})
    /\ InitToolsWith({DefaultMotorInput}, SolarInputs)
NextSolar == CalculateSolar
SpecSolar == InitSolar /\ [][NextSolar]_vars

\* calculateElectrical is a synchronous function: once called it runs on to
\* its return, so a call that has not returned is not put off for ever.
\* Every step of Begin, LoopStep and Finish moves pc or selectedCable, and
\* the fairness is stated on those two.
Running == pc \in {"idle", "loop"}
Proceeds ==
    /\ Running
    /\ pc' \in {"loop", "done", "error"}
    /\ selectedCable' \in 1..Len(CABLE_TABLE)
Fairness == WF_<<pc, selectedCable>>(Proceeds)
LiveSpec == Init /\ [][Next]_vars /\ Fairness

-----------------------------------------------------------------------------
(* The properties.                                                         *)

Returned == pc = "done"

\* The fields of the interface CalcResult.
CalcResultFields ==
    {"current", "cableSection", "neutralSection", "earthSection", "conduitSize",
     "breakerRating", "breakerCurve", "breakerIcn", "voltageDrop",
     "voltageDropPercent", "shortCircuitCurrent", "isConform", "isIcnConform",
     "izCorrected", "notes", "bom"}

\* C1: every call of calculateElectrical returns: it never ends in an error,
\* it reaches its return statement, and what it returns has every field of
\* CalcResult, whatever the method, the temperature and grouping keys, the
\* breaker rating and the drop are.
C1_AlwaysReturns ==
    /\ [](pc # "error")
    /\ [](Returned => DOMAIN result = CalcResultFields)
    /\ <>Returned

\* A call returned for a method the table has no column for and factor keys
\* the tables do not have, with a drop no section brings under the limit.
C1_Witness ==
    /\ Returned
    /\ input.method \notin DOMAIN CABLE_TABLE[1].capacity
    /\ input.temp \notin DOMAIN TEMPERATURE_FACTORS
    /\ input.grouping \notin DOMAIN GROUPING_FACTORS
    /\ FracLess(Whole(limit(input)), result.voltageDropPercent)
    /\ ~result.isConform

\* Cable i of the table carries breaker b in the installation of inp: its
\* corrected ampacity capacity[method] * fTotal is a number and at least b.
Carries(i, inp) ==
    /\ inp.method \notin ObjectPrototype
    /\ FracLeq(Whole(inp.breakerRating),
               FracMul(IF inp.method \in DOMAIN CABLE_TABLE[i].capacity
                       THEN CABLE_TABLE[i].capacity[inp.method]
                       ELSE CABLE_TABLE[i].capacity["B1"],
                       fTotal(inp)))

SomeSectionCarries(inp) == \E i \in 1..Len(CABLE_TABLE) : Carries(i, inp)

HasNote(r, kind) == \E k \in DOMAIN r.notes : r.notes[k].kind = kind

DropLimitMet(r) ==
    FracLeq(r.voltageDropPercent, Whole(IF input.loadType = "alimentador" THEN 7 ELSE 4))

BreakerCarried(r) == FracLeq(Whole(r.breakerRating), r.izCorrected)

\* C2: in every result, isConform is true exactly when the percent drop is
\* within the limit (7 for an alimentador, 4 for any other load), the breaker
\* rating is at most the corrected ampacity, and isIcnConform is true.
C2_ConformIff ==
    Returned =>
        (result.isConform <=>
            ((DropLimitMet(result) /\ BreakerCarried(result)) /\ result.isIcnConform))

\* A result whose drop and ampacity are in order and whose interrupting
\* capacity alone makes it non-conforming.
C2_Witness ==
    /\ Returned
    /\ DropLimitMet(result)
    /\ BreakerCarried(result)
    /\ ~result.isIcnConform
    /\ ~result.isConform

\* C3: when some section of the table carries the proposed breaker, the
\* izCorrected returned is at least the breaker rating, also when the
\* voltage-drop loop has moved to a larger section.
C3_IzCoversBreaker ==
    (Returned /\ SomeSectionCarries(input)) => BreakerCarried(result)

\* A result the loop reached by upgrading the section the ampacity step chose.
C3_Witness ==
    /\ Returned
    /\ SomeSectionCarries(input)
    /\ selectedCable > ampacity
    /\ BreakerCarried(result)

DropNeverMet(inp) ==
    FracLess(Whole(limit(inp)), calculateVD(CABLE_TABLE[Len(CABLE_TABLE)], inp).dVPercent)

\* C10: when no section carries the breaker, the result has cableSection 120,
\* isConform false and the overload note; when the drop is over the limit
\* even at 120 mm2, it has cableSection 120, isConform false and the
\* drop-limit note.
C10_ExhaustedTable ==
    Returned =>
        /\ ~SomeSectionCarries(input) =>
                /\ result.cableSection = Whole(120)
                /\ ~result.isConform
                /\ HasNote(result, "Erro: sobrecarga")
        /\ DropNeverMet(input) =>
                /\ result.cableSection = Whole(120)
                /\ ~result.isConform
                /\ HasNote(result, "Aviso: queda de tensao")

\* A result for a breaker no section carries, and with a drop within the
\* limit: the overload note is its only shortfall note.
C10_Witness ==
    /\ Returned
    /\ ~SomeSectionCarries(input)
    /\ ~DropNeverMet(input)
    /\ result.cableSection = Whole(120)
    /\ HasNote(result, "Erro: sobrecarga")
    /\ ~HasNote(result, "Aviso: queda de tensao")

\* A pass of the while loop: the call is in the loop before and after it.
LoopPass == pc = "loop" /\ pc' = "loop"

\* C9: the voltage-drop loop terminates; each pass moves to the next larger
\* section of the table and the percent drop it finds is at most the drop
\* before it; when the loop is left the percent drop is within the limit or
\* the section is the last of the table, 120 mm2; and the final section is
\* at least the section the ampacity step chose.
C9_DropLoop ==
    /\ (pc = "loop") ~> Returned
    /\ [][LoopPass =>
            /\ selectedCable' = selectedCable + 1
            /\ FracLess(CABLE_TABLE[selectedCable].section,
                        CABLE_TABLE[selectedCable'].section)
            /\ FracLeq(vd'.dVPercent, vd.dVPercent)]_vars
    /\ [](Returned =>
            /\ \/ FracLeq(result.voltageDropPercent, Whole(limit(input)))
               \/ result.cableSection = Whole(120)
            /\ FracLeq(CABLE_TABLE[ampacity].section, result.cableSection))

\* A call that left the loop within the limit after more than one pass, on
\* a section short of the last.
C9_Witness ==
    /\ Returned
    /\ selectedCable > ampacity + 1
    /\ selectedCable < Len(CABLE_TABLE)
    /\ FracLeq(result.voltageDropPercent, Whole(limit(input)))

\* The call before this one had the same input but for a shorter length.
LongerThanBefore ==
    /\ Returned
    /\ prev # NoCall
    /\ prev.input.length < input.length
    /\ [prev.input EXCEPT !.length = input.length] = input

DropsNotSmaller ==
    /\ FracLeq(prev.result.voltageDrop, result.voltageDrop)
    /\ FracLeq(prev.result.voltageDropPercent, result.voltageDropPercent)

\* C4, as claimed: of two inputs that differ only in length, the longer one
\* returns a voltageDrop and a voltageDropPercent that are not smaller.
C4_LongerNeverDropsLess == LongerThanBefore => DropsNotSmaller

\* C4, amended: of two inputs that differ only in length and return the same
\* cableSection, the longer one returns a voltageDrop and a
\* voltageDropPercent that are not smaller.
C4_LongerSameSection ==
    (LongerThanBefore /\ prev.result.cableSection = result.cableSection)
        => DropsNotSmaller

\* Two such calls returned the same section, the longer with a greater drop.
C4_Witness ==
    /\ LongerThanBefore
    /\ prev.result.cableSection = result.cableSection
    /\ FracLess(prev.result.voltageDrop, result.voltageDrop)
    /\ FracLess(prev.result.voltageDropPercent, result.voltageDropPercent)

C5_CircuitsUnchanged == qdcResult # NoResult => circuits = qdcBefore

\* C7: the second of two successive calls of calculateQDC on one input
\* object returns what the first returned: the same totalCurrent,
\* mainBreaker, drRating, busbarCurrent and phase currents.
C7_SecondCallEqual == qdcPrev # NoResult => qdcResult = qdcPrev

FracMax(a, b) == IF FracLess(a, b) THEN b ELSE a

ThreePhaseOver25(r) ==
    input.systemType = "trifasico" /\ FracLess(Whole(25), r.cableSection)

\* C11: in every result neutralSection is cableSection, except in a
\* three-phase circuit with cableSection over 25, where it is the greater of
\* cableSection / 2 and 16.
C11_NeutralSection ==
    Returned =>
        result.neutralSection =
            IF ThreePhaseOver25(result)
            THEN FracMax(FracDiv(result.cableSection, Whole(2)), Whole(16))
            ELSE result.cableSection

\* A three-phase result over 25 mm2, with half the phase section for neutral.
C11_Witness ==
    /\ Returned
    /\ ThreePhaseOver25(result)
    /\ result.neutralSection = FracDiv(result.cableSection, Whole(2))
    /\ result.neutralSection # result.cableSection

\* C12: in every result earthSection is cableSection up to 16 mm2, 16 for
\* cableSection over 16 and up to 35, and cableSection / 2 above 35.
C12_EarthSection ==
    Returned =>
        result.earthSection =
            IF FracLeq(result.cableSection, Whole(16)) THEN result.cableSection
            ELSE IF FracLeq(result.cableSection, Whole(35)) THEN Whole(16)
            ELSE FracDiv(result.cableSection, Whole(2))

\* A result of 35 mm2, the upper end of the band whose earth is 16 mm2.
C12_Witness ==
    /\ Returned
    /\ result.cableSection = Whole(35)
    /\ result.earthSection = Whole(16)

\* The sections of CABLE_TABLE, as the claim lists them.
StandardSections ==
    {Frac(15, 10), Frac(25, 10), Whole(4), Whole(6), Whole(10), Whole(16),
     Whole(25), Whole(35), Whole(50), Whole(70), Whole(95), Whole(120)}

\* C13, as claimed: the phase, neutral and earth sections of every result
\* are members of the standard sections of CABLE_TABLE.
C13_AllStandard ==
    Returned =>
        /\ result.cableSection \in StandardSections
        /\ result.neutralSection \in StandardSections
        /\ result.earthSection \in StandardSections

\* C13, amended: the phase section of every result is a standard section;
\* the neutral section is a standard section or 17.5, 47.5 or 60 mm2, and
\* the earth section is a standard section or 47.5 or 60 mm2 (the halves of
\* 35, 95 and 120 mm2).
C13_StandardOrHalf ==
    Returned =>
        /\ result.cableSection \in StandardSections
        /\ result.neutralSection \in
                StandardSections \cup {Frac(175, 10), Frac(475, 10), Whole(60)}
        /\ result.earthSection \in
                StandardSections \cup {Frac(475, 10), Whole(60)}

\* A three-phase result of 95 mm2: neutral and earth are both 47.5 mm2.
C13_Witness ==
    /\ Returned
    /\ result.cableSection = Whole(95)
    /\ result.neutralSection = Frac(475, 10)
    /\ result.earthSection = Frac(475, 10)

\* The number of phases of a system.
PhaseCount(systemType) ==
    IF systemType = "monofasico" THEN 1
    ELSE IF systemType = "bifasico" THEN 2
    ELSE 3

\* The trade size of a total conductor area, by the ascending thresholds.
SizeOfArea(total) ==
    IF FracLeq(total, Whole(150)) THEN "3/4\""
    ELSE IF FracLeq(total, Whole(300)) THEN "1\""
    ELSE IF FracLeq(total, Whole(500)) THEN "1 1/4\""
    ELSE IF FracLeq(total, Whole(800)) THEN "1 1/2\""
    ELSE "2\""

\* C14: conduitSize is the trade size of cableSection times the number of
\* phases (1, 2 or 3) plus neutralSection plus earthSection, and is one of
\* the five sizes.
C14_ConduitByPhaseCount ==
    Returned =>
        /\ result.conduitSize =
                SizeOfArea(FracAdd(FracAdd(FracMul(result.cableSection,
                                                   Whole(PhaseCount(input.systemType))),
                                           result.neutralSection),
                                   result.earthSection))
        /\ result.conduitSize \in {"3/4\"", "1\"", "1 1/4\"", "1 1/2\"", "2\""}

\* C15: isIcnConform is true exactly when breakerIcn * 1000 is at least
\* shortCircuitCurrent, and the notes hold the interrupting-capacity note
\* exactly when isIcnConform is false.
C15_IcnConform ==
    Returned =>
        /\ result.isIcnConform <=>
                FracLeq(result.shortCircuitCurrent,
                        FracMul(result.breakerIcn, Whole(1000)))
        /\ HasNote(result, "Perigo: curto-circuito") <=> ~result.isIcnConform

\* A result whose short-circuit current is over the interrupting capacity,
\* with the note.
C15_Witness ==
    /\ Returned
    /\ FracLess(FracMul(result.breakerIcn, Whole(1000)), result.shortCircuitCurrent)
    /\ ~result.isIcnConform
    /\ HasNote(result, "Perigo: curto-circuito")

\* The kinds of the notes of a result, in their order.
NoteKinds(r) == [k \in DOMAIN r.notes |-> r.notes[k].kind]

OneIf(cond, kind) == IF cond THEN <<kind>> ELSE << >>

CurveKinds ==
    {"Recomendacao: motores", "Recomendacao: iluminacao", "Observacao Tecnica: tomadas"}

\* C16: the notes are, in this order and with nothing else, the drop-limit
\* note iff voltageDropPercent > limit, the overload note iff breakerRating >
\* izCorrected, the nuisance-tripping note iff breakerRating < Ib, the
\* interrupting-capacity note iff not isIcnConform, at most one trip-curve
\* note, and the parallel-conductor advisory iff Ib > 100.
C16_NotesInOrder ==
    Returned =>
        \E curve \in {<< >>} \cup {<<k>> : k \in CurveKinds} :
            NoteKinds(result) =
                OneIf(FracLess(Whole(limit(input)), result.voltageDropPercent),
                      "Aviso: queda de tensao")
                \o OneIf(FracLess(result.izCorrected, Whole(result.breakerRating)),
                         "Erro: sobrecarga")
                \o OneIf(CurrentExceeds(result.current, result.breakerRating),
                         "Erro: desarme")
                \o OneIf(~result.isIcnConform, "Perigo: curto-circuito")
                \o curve
                \o OneIf(CurrentExceeds(result.current, 100), "Corrente elevada")

\* A result that carries all six notes.
C16_Witness ==
    /\ Returned
    /\ Len(result.notes) = 6
    /\ NoteKinds(result)[1] = "Aviso: queda de tensao"
    /\ NoteKinds(result)[5] \in CurveKinds
    /\ NoteKinds(result)[6] = "Corrente elevada"

HasCurveNote(r) == \E k \in CurveKinds : HasNote(r, k)

\* C17: a motor on curve B gets the curve-mismatch recommendation; a curve
\* note is present for (motor, B), (iluminacao, D) and (tomadas, B) and for
\* no other pair of load type and curve.
C17_CurveNote ==
    Returned =>
        /\ (input.loadType = "motor" /\ input.breakerCurve = "B")
                => HasNote(result, "Recomendacao: motores")
        /\ HasCurveNote(result) <=>
                <<input.loadType, input.breakerCurve>> \in
                    {<<"motor", "B">>, <<"iluminacao", "D">>, <<"tomadas", "B">>}

\* A socket-outlet circuit on curve B, with its note.
C17_Witness ==
    /\ Returned
    /\ input.loadType = "tomadas"
    /\ input.breakerCurve = "B"
    /\ HasNote(result, "Observacao Tecnica: tomadas")

\* lo <= a < hi, in thousandths.
Within(a, lo, hi) == FracLeq(Frac(lo, 1000), a) /\ FracLess(a, Frac(hi, 1000))

\* C20, Scenario A: on the input the form starts with the design current
\* rounds to 9.45 A, the section is 1.5 mm2 with a corrected ampacity of
\* 17.5 A, the drop rounds to 4.57 V and 3.60 percent, the loop took no
\* step, and both conformity flags are true.
C20_ScenarioA ==
    (Returned /\ input = DefaultInput) =>
        /\ ~result.current.root3
        /\ Within(result.current.q, 9445, 9455)
        /\ result.cableSection = Frac(15, 10)
        /\ result.izCorrected = Frac(175, 10)
        /\ Within(result.voltageDrop, 4565, 4575)
        /\ Within(result.voltageDropPercent, 3595, 3605)
        /\ selectedCable = ampacity
        /\ result.isIcnConform
        /\ result.isConform

\* The call of Scenario A has returned.
C20_Witness ==
    /\ Returned
    /\ input = DefaultInput
    /\ result.cableSection = Frac(15, 10)
    /\ result.isConform

\* The call before had the input of this call but for one field.
SecondCall == Returned /\ prev # NoCall

\* C18: a call with a temperature that is not a key of TEMPERATURE_FACTORS
\* returns what the call with 30 degrees returns, and a call with a grouping
\* that is not a key of GROUPING_FACTORS returns what the call with a
\* grouping of 1 returns, all other inputs equal.
C18_AbsentKeyIsFactorOne ==
    SecondCall =>
        /\ (/\ prev.input.temp \notin DOMAIN TEMPERATURE_FACTORS
            /\ input = [prev.input EXCEPT !.temp = 30])
                => result = prev.result
        /\ (/\ prev.input.grouping \notin DOMAIN GROUPING_FACTORS
            /\ input = [prev.input EXCEPT !.grouping = 1])
                => result = prev.result

\* The call with 33 degrees and the call with 30 degrees have returned the
\* same result, under a grouping factor that is not 1.
C18_Witness ==
    /\ SecondCall
    /\ prev.input.temp = 33
    /\ input = [prev.input EXCEPT !.temp = 30]
    /\ input.grouping = 2
    /\ result = prev.result

\* C19: a call with a method that is not a column of the table ('B1', 'B2',
\* 'C') returns what the call with method 'B1' returns, all other inputs
\* equal.
C19_UnknownMethodIsB1 ==
    (/\ SecondCall
     /\ prev.input.method \notin {"B1", "B2", "C"}
     /\ input = [prev.input EXCEPT !.method = "B1"])
        => result = prev.result

QDCReturned == qdcResult # NoResult

\* 0.8 * total and 1.25 * breaker, as doubles.
Diversified(total) == DoubleMul(total, ToDouble(8, 10))
BusbarOf(breaker) == DoubleMul(DoubleOfInt(breaker), ToDouble(125, 100))

RatingsSet == {BREAKER_RATINGS[i] : i \in DOMAIN BREAKER_RATINGS}

\* The currents of a list of circuits, in whole amperes.
IsList(cs, amps) ==
    /\ Len(cs) = Len(amps)
    /\ \A k \in DOMAIN cs : cs[k].current = DoubleOfInt(amps[k])

\* C23: totalCurrent is the sum of the circuit currents, mainBreaker is the
\* smallest standard rating that is at least 0.8 * totalCurrent, drRating
\* equals mainBreaker and busbarCurrent is 1.25 * mainBreaker; circuits of
\* 20, 15 and 32 A give a total of 67 A and a main breaker of 63 A.
C23_MainBreaker ==
    QDCReturned =>
        /\ qdcResult.totalCurrent = SumCurrents(qdcBefore, Len(qdcBefore))
        /\ qdcResult.mainBreaker \in RatingsSet
        /\ ~DoubleLess(DoubleOfInt(qdcResult.mainBreaker),
                       Diversified(qdcResult.totalCurrent))
        /\ \A r \in RatingsSet :
                r < qdcResult.mainBreaker =>
                    DoubleLess(DoubleOfInt(r), Diversified(qdcResult.totalCurrent))
        /\ qdcResult.drRating = qdcResult.mainBreaker
        /\ qdcResult.busbarCurrent = BusbarOf(qdcResult.mainBreaker)
        /\ IsList(qdcBefore, <<20, 15, 32>>) =>
                /\ qdcResult.totalCurrent = DoubleOfInt(67)
                /\ qdcResult.mainBreaker = 63

\* No circuit of the list is followed by a greater one.
Descending(cs) ==
    \A k \in 1..(Len(cs) - 1) : ~DoubleLess(cs[k].current, cs[k + 1].current)

\* The positions of a list of n circuits that deal to phase p (0, 1 or 2),
\* counting the positions from 0.
DealtTo(n, p) == {k \in 1..n : (k - 1) % 3 = p}

GreatestOf(I) == CHOOSE k \in I : \A j \in I : j <= k

\* The currents at the positions I, added in the order of the positions.
RECURSIVE SumAt(_, _)
SumAt(cs, I) ==
    IF I = {} THEN DoubleOfInt(0)
    ELSE LET k == GreatestOf(I)
         IN  DoubleAdd(SumAt(cs, I \ {k}), cs[k].current)

\* C24: the circuits the call was given, put in an order of descending
\* current, are dealt round-robin: the k-th largest (k from 0) is added to
\* phase R, S or T according to k mod 3, so that each phase current is the
\* sum of the circuits at its positions and of no other circuit.
C24_RoundRobin ==
    QDCReturned =>
        \E f \in Permutations(DOMAIN qdcBefore) :
            LET sorted == [k \in DOMAIN qdcBefore |-> qdcBefore[f[k]]] IN
            /\ Descending(sorted)
            /\ \A p \in 0..2 :
                    /\ qdcResult.phaseBalance[p + 1].phase = <<"R", "S", "T">>[p + 1]
                    /\ qdcResult.phaseBalance[p + 1].current =
                            SumAt(sorted, DealtTo(Len(sorted), p))

\* Four circuits given in ascending order: phase R holds the largest and
\* the smallest of them.
C24_Witness ==
    /\ QDCReturned
    /\ Len(qdcBefore) = 4
    /\ \A k \in 1..3 : DoubleLess(qdcBefore[k].current, qdcBefore[k + 1].current)
    /\ qdcResult.phaseBalance[1].current =
            DoubleAdd(qdcBefore[4].current, qdcBefore[1].current)
    /\ qdcResult.phaseBalance[3].current = qdcBefore[2].current

PhaseCurrent(p) == qdcResult.phaseBalance[p].current

\* The least exponent of the doubles of S that are not zero.
LowestExp(S) ==
    LET es == {v.e : v \in {w \in S : w.m # << >>}}
    IN  IF es = {} THEN 0 ELSE CHOOSE e \in es : \A f \in es : e <= f

\* x <= y + z, of the exact values of three doubles.
LeqSum(x, y, z) ==
    LET e == LowestExp({x, y, z})
    IN  ~BigLess(BigAdd(Aligned(y, e), Aligned(z, e)), Aligned(x, e))

\* The current of a largest circuit of a list.
LargestCurrent(cs) ==
    LET k == CHOOSE k \in DOMAIN cs :
                 \A j \in DOMAIN cs : ~DoubleLess(cs[k].current, cs[j].current)
    IN  cs[k].current

\* R + S + T, added from the left as doubles, is totalCurrent.
PhasesAddUp ==
    DoubleAdd(DoubleAdd(PhaseCurrent(1), PhaseCurrent(2)), PhaseCurrent(3))
        = qdcResult.totalCurrent

\* R >= S >= T
PhasesOrdered ==
    /\ ~DoubleLess(PhaseCurrent(1), PhaseCurrent(2))
    /\ ~DoubleLess(PhaseCurrent(2), PhaseCurrent(3))

\* R - T is at most the largest circuit current: R <= largest + T.
PhasesSpread == LeqSum(PhaseCurrent(1), LargestCurrent(qdcBefore), PhaseCurrent(3))

\* Every current of the list is a whole number of amperes.
WholeAmperes(cs) == \A k \in DOMAIN cs : cs[k].current.e >= 0

\* C29, as claimed: in every result the three phase currents sum to
\* totalCurrent, and (the currents being non-negative) phase R >= phase S
\* >= phase T with R - T at most the largest circuit current.
C29_Balanced ==
    QDCReturned => (PhasesAddUp /\ PhasesOrdered /\ PhasesSpread)

\* C29, amended: in every result on non-negative currents phase R >= phase
\* S >= phase T; when the currents are whole numbers of amperes the three
\* phase currents sum to totalCurrent and R - T is at most the largest
\* circuit current.
C29_BalancedWholeAmperes ==
    QDCReturned =>
        /\ PhasesOrdered
        /\ WholeAmperes(qdcBefore) => (PhasesAddUp /\ PhasesSpread)

\* Four circuits of whole amperes, not all equal: phase R holds two of them
\* and is R - T = largest away from phase T.
C29_Witness ==
    /\ QDCReturned
    /\ Len(qdcBefore) = 4
    /\ WholeAmperes(qdcBefore)
    /\ DoubleLess(PhaseCurrent(3), LargestCurrent(qdcBefore))
    /\ PhasesAddUp
    /\ PhaseCurrent(1) = DoubleAdd(LargestCurrent(qdcBefore), PhaseCurrent(3))

\* length * section * price per mm2 and metre, in hundredths.
CablePrice(length, section, hundredths) ==
    FracMul(FracMul(Whole(length), section), Frac(hundredths, 100))

\* C25: the bill of materials has exactly five line items, in the order
\* phase cable, neutral cable, earth cable, breaker, conduit, and the total
\* handed to the budget is length * cableSection * 0.5 + length *
\* neutralSection * 0.45 + length * earthSection * 0.45 + 25 + length * 5.
C25_BomTotal ==
    Returned =>
        /\ Len(result.bom) = 5
        /\ [k \in 1..5 |-> result.bom[k].item[1]] =
                <<"Cabo Flexivel", "Cabo Flexivel (Neutro) Azul",
                  "Cabo Flexivel (Terra) Verde", "Disjuntor DIN",
                  "Eletroduto Corrugado Reforcado">>
        /\ result.bom[1].item[2] = result.cableSection
        /\ result.bom[2].item[2] = result.neutralSection
        /\ result.bom[3].item[2] = result.earthSection
        /\ totalAmountOf(result.bom) =
                FracAdd(FracAdd(FracAdd(FracAdd(
                    CablePrice(input.length, result.cableSection, 50),
                    CablePrice(input.length, result.neutralSection, 45)),
                    CablePrice(input.length, result.earthSection, 45)),
                    Whole(25)),
                    Whole(input.length * 5))

\* A result whose three cables have three different sections.
C25_Witness ==
    /\ Returned
    /\ result.neutralSection # result.cableSection
    /\ result.earthSection # result.cableSection
    /\ result.earthSection # result.neutralSection
    /\ Len(result.bom) = 5
    /\ FracLess(Whole(25 + input.length * 5), totalAmountOf(result.bom))

\* The notes that report a shortfall: a warning, an error or a danger.
ShortfallKinds ==
    {"Aviso: queda de tensao", "Erro: sobrecarga", "Erro: desarme",
     "Perigo: curto-circuito"}

\* C27: whenever isConform is true, Ib <= In <= Iz holds (design current <=
\* breakerRating <= izCorrected) and the notes hold no warning, error or
\* danger note.
C27_ConformMeansSized ==
    (Returned /\ result.isConform) =>
        /\ ~CurrentExceeds(result.current, result.breakerRating)
        /\ BreakerCarried(result)
        /\ \A k \in ShortfallKinds : ~HasNote(result, k)

\* The row of CABLE_TABLE of the section a result returns.
FinalCable(r) ==
    CABLE_TABLE[CHOOSE i \in 1..Len(CABLE_TABLE) : CABLE_TABLE[i].section = r.cableSection]

\* capacity[method] of a cable as getIz reads it: the column of the method,
\* the B1 column for a method without a column, not a number for a name
\* that Object.prototype defines.
CapacityRead(cable, method) ==
    IF method \in DOMAIN cable.capacity THEN cable.capacity[method]
    ELSE IF method \in ObjectPrototype THEN NaN
    ELSE cable.capacity["B1"]

\* C28: the cable-dependent fields of a result are those of the final
\* cableSection, also after the loop has upgraded it: izCorrected is its
\* capacity[method] * fTotal, voltageDrop and voltageDropPercent are the
\* drop over its resistance, and shortCircuitCurrent is voltage over its
\* resistance times length / 1000.
C28_FieldsOfFinalSection ==
    Returned =>
        LET final == FinalCable(result) IN
        /\ final = CABLE_TABLE[selectedCable]
        /\ result.izCorrected =
                (IF IsNaN(CapacityRead(final, input.method)) THEN NaN
                 ELSE FracMul(CapacityRead(final, input.method), fTotal(input)))
        /\ result.voltageDrop = calculateVD(final, input).dV
        /\ result.voltageDropPercent = calculateVD(final, input).dVPercent
        /\ result.shortCircuitCurrent =
                FracDiv(Whole(input.voltage),
                        FracMul(final.resistance, Frac(input.length, 1000)))

\* A result the loop reached by two upgrades or more, on a method that has
\* no column in the table.
C28_Witness ==
    /\ Returned
    /\ selectedCable > ampacity + 1
    /\ input.method = "A1"
    /\ result.cableSection = CABLE_TABLE[selectedCable].section
    /\ result.izCorrected =
            FracMul(CABLE_TABLE[selectedCable].capacity["B1"], fTotal(input))

\* This call is for aluminium and the call before was for copper, on the
\* same input otherwise.
AluminioAfterCobre ==
    /\ SecondCall
    /\ prev.input.material = "cobre"
    /\ input = [prev.input EXCEPT !.material = "aluminio"]

\* C30: of two calls that differ in the material only, the one for
\* aluminio never returns a smaller cableSection than the one for cobre.
C30_AluminioNotSmaller ==
    AluminioAfterCobre => ~FracLess(result.cableSection, prev.result.cableSection)

\* The call for aluminium has returned a larger section than the call for
\* copper, and neither has exhausted the table.
C30_Witness ==
    /\ AluminioAfterCobre
    /\ FracLess(prev.result.cableSection, result.cableSection)
    /\ FracLess(result.cableSection, Whole(120))

MotorReturned == motorResult # NoResult

\* x <= y
DoubleLeq(x, y) == ~DoubleLess(y, x)

\* 1.25 * In as a real number.
BreakerDemand(In) == ExactMul(In, ToDouble(125, 100))

\* C21: for every motor, the breaker calculateMotor returns is the smallest
\* value of BREAKER_RATINGS that is at least 1.25 times the nominal current:
\* it is a rating, it is at least 1.25 * In, and no smaller rating is; for
\* the motor of Scenario B (5 CV, 380 V, 85 %, power factor 0.8, direct
\* start) it is 13 A.
C21_SmallestRating ==
    MotorReturned =>
        LET demand == BreakerDemand(motorResult.nominalCurrent) IN
        /\ motorResult.breaker \in RatingsSet
        /\ DoubleLeq(demand, DoubleOfInt(motorResult.breaker))
        /\ \A r \in RatingsSet :
               r < motorResult.breaker => DoubleLess(DoubleOfInt(r), demand)
        /\ motorInput = DefaultMotorInput => motorResult.breaker = 13

\* The nominal current lies in the band from low (included) to high
\* (excluded); a bound of 0 stands for no bound on that side.
InBand(In, low, high) ==
    /\ DoubleLeq(DoubleOfInt(low), In)
    /\ high = 0 \/ DoubleLess(In, DoubleOfInt(high))

\* The bands of the contactor classes.
ContactorBands ==
    [CWM9 |-> <<0, 9>>, CWM12 |-> <<9, 12>>, CWM18 |-> <<12, 18>>, CWM25 |-> <<18, 0>>]

\* C22: the contactor class calculateMotor returns follows the bands of the
\* nominal current: 'CWM9' iff In < 9, 'CWM12' iff 9 <= In < 12, 'CWM18' iff
\* 12 <= In < 18, 'CWM25' iff In >= 18, so the class returned is the one
\* class whose band holds In; the motor of Scenario B has In between 8.21 A
\* and 8.23 A and gets 'CWM9'.
C22_ContactorBands ==
    MotorReturned =>
        LET In == motorResult.nominalCurrent IN
        /\ motorResult.contactor \in DOMAIN ContactorBands
        /\ \A class \in DOMAIN ContactorBands :
               motorResult.contactor = class
                   <=> InBand(In, ContactorBands[class][1], ContactorBands[class][2])
        /\ motorInput = DefaultMotorInput =>
               /\ DoubleLess(ToDouble(821, 100), In)
               /\ DoubleLess(In, ToDouble(823, 100))
               /\ motorResult.contactor = "CWM9"

\* The motor of Scenario B has been sized, and its relay setting of 1.1 * In
\* is above 9 A while In is below.
C22_Witness ==
    /\ MotorReturned
    /\ motorInput = DefaultMotorInput
    /\ motorResult.contactor = "CWM9"
    /\ DoubleLess(DoubleOfInt(9), motorResult.relay)

\* A motor of another band has been sized: between 12 A and 18 A.
C22_MiddleBand ==
    /\ MotorReturned
    /\ motorResult.contactor = "CWM18"

SolarReturned == solarResult # NoResult

\* The panels returned are the ceiling of systemPower * 1000 / panelPower,
\* in real numbers: they cover the power and one panel fewer does not.
PanelsAreCeiling ==
    LET watts == ExactMul(solarResult.systemPower, DoubleOfInt(1000))
        covered(n) == ExactMul(DoubleOfInt(n), solarInput.panelPower)
    IN  /\ solarResult.estimatedPanels >= 1
        /\ DoubleLeq(watts, covered(solarResult.estimatedPanels))
        /\ DoubleLess(covered(solarResult.estimatedPanels - 1), watts)

\* monthlyGeneration is systemPower * irradiation * 30 * 0.8.
GenerationByFormula ==
    solarResult.monthlyGeneration =
        monthlyGenerationOf(solarResult.systemPower, solarInput.solarIrradiation)

\* x * 2^-50
Rounding(x) == [m |-> x.m, e |-> x.e - 50]

\* monthlyGeneration and monthlyConsumption differ by at most
\* monthlyConsumption * 2^-50.
GenerationNearConsumption ==
    LET slack == Rounding(solarInput.monthlyConsumption) IN
    /\ LeqSum(solarResult.monthlyGeneration, solarInput.monthlyConsumption, slack)
    /\ LeqSum(solarInput.monthlyConsumption, solarResult.monthlyGeneration, slack)

====
